---- MODULE Spec2Model ----
(***************************************************************************)
(* The four tutorial programs of 1.getting_started (hello_window_clear,    *)
(* hello_triangle, hello_rectangle, shaders_uniform) as one state machine. *)
(* `prog` selects the program; `pc` is the position inside its main().     *)
(* GLFW and OpenGL are external collaborators: their calls are modelled by *)
(* their documented effect on the window / context state, and every        *)
(* outcome the program does not control (window creation, function         *)
(* loading, compile and link status, input events, the clock) is chosen    *)
(* nondeterministically.                                                   *)
(***************************************************************************)
EXTENDS Integers, Sequences, FiniteSets, TLC

VARIABLES
    prog,            \* which of the four main() functions runs
    pc,              \* position in main()
    window,          \* GLFWwindow* window: "unset", "NULL" or "valid"
    contextCurrent,  \* glfwMakeContextCurrent was called
    resizeCallback,  \* framebuffer_size_callback is registered
    gladLoaded,      \* gladLoadGLLoader returned non-zero
    terminateCalls,  \* number of glfwTerminate calls
    returned,        \* main has returned
    status,          \* value returned by main (meaningful when returned)
    out,             \* lines written to std::cout
    success,         \* int success (uninitialised until the first query)
    shader,          \* the two shader objects, by stage
    program,         \* the program object shaderProgram
    vao, vbo, ebo,   \* vertex array, vertex buffer, element buffer objects
    boundVAO,        \* GL_VERTEX_ARRAY_BINDING is VAO
    boundArray,      \* GL_ARRAY_BUFFER binding is VBO
    currentProgram,  \* GL_CURRENT_PROGRAM: "none" or "shaderProgram"
    useArg,          \* handle last passed to glUseProgram
    clearColor,      \* GL_COLOR_CLEAR_VALUE, in tenths
    colorBuffer,     \* back buffer: "undefined", "cleared" or "drawn"
    viewport,        \* GL_VIEWPORT as <<x, y, w, h>>
    clock,           \* last value returned by glfwGetTime, in ticks
    greenValue,      \* float greenValue of the current iteration
    uniformGreen,    \* green component last written to ourColor
    shouldClose,     \* the window's should-close flag
    escKey,          \* cached state of GLFW_KEY_ESCAPE
    closeCause,      \* what set the flag: "none", "key" or "request"
    frames,          \* loop iterations started
    presented,       \* frames presented by glfwSwapBuffers
    iterDraws,       \* draw calls since the last loop-condition check
    iterUniforms,    \* glUniform4f calls since the last loop-condition check
    drawsAfterClose, \* draw calls issued while the flag was already true
    lastDraw,        \* the last draw call issued
    iterSteps,       \* calls of the loop body made since the last condition check
    clockAge,        \* glfwGetTime: "unread", read this iteration ("fresh") or earlier
    uniformAge,      \* ourColor: "unset", written this iteration ("fresh") or earlier
    prevClock,       \* the clock sample before the last one (-1: none)
    prevGreen,       \* the greenValue computed from prevClock
    lastReported,    \* last framebuffer size reported by the window system
    frameViewport    \* GL_VIEWPORT at the clear, draw and present of this iteration

vars == << prog, pc, window, contextCurrent, resizeCallback, gladLoaded,
           terminateCalls, returned, status, out, success, shader, program,
           vao, vbo, ebo, boundVAO, boundArray, currentProgram, useArg,
           clearColor, colorBuffer, viewport, clock, greenValue, uniformGreen,
           shouldClose, escKey, closeCause, frames, presented, iterDraws,
           iterUniforms, drawsAfterClose, lastDraw, iterSteps, clockAge,
           uniformAge, prevClock, prevGreen, lastReported, frameViewport >>

setupVars == << window, contextCurrent, resizeCallback, gladLoaded >>
exitVars == << terminateCalls, returned, status >>
buildVars == << success, shader, program >>
geomVars == << vao, vbo, ebo, boundVAO, boundArray >>
frameVars == << currentProgram, useArg, clearColor, colorBuffer, clock,
               greenValue, uniformGreen >>
inputVars == << shouldClose, escKey, closeCause >>
histVars == << frames, presented, iterDraws, iterUniforms, drawsAfterClose,
              lastDraw, iterSteps, clockAge, uniformAge, prevClock, prevGreen,
              lastReported, frameViewport >>

(***************************************************************************)
(* Bounds of the model.                                                    *)
(***************************************************************************)
MaxFrames == 3
MaxTime == 8

(***************************************************************************)
(* Program constants.                                                      *)
(***************************************************************************)
SCR_WIDTH == 800
SCR_HEIGHT == 600
TriangleVertexCount == 3
DrawElementsCount == 6
AttribSize == 3
AttribStride == 12
SizeofFloat == 4

Programs == {"hello_window_clear", "hello_triangle", "hello_rectangle", "shaders_uniform"}
DrawingPrograms == Programs \ {"hello_window_clear"}
Stages == {"vertex", "fragment"}

\* Sizes the window system may report through the resize callback.
Sizes == { <<SCR_WIDTH, SCR_HEIGHT>>, <<640, 480>> }

MsgWindow == "Failed to create GLFW window"
MsgGlad == "Failed to initialize GLAD"
MsgVertex == "ERROR::SHADER::VERTEX::COMPILATION_FAILED"
MsgFragment == "ERROR::SHADER::FRAGMENT::COMPILATION_FAILED"
MsgLink == "ERROR::SHADER::PROGRAM::LINKING_FAILED"
BuildMsgs == {MsgVertex, MsgFragment, MsgLink}

quadVertices == << <<5, 5, 0>>, <<5, -5, 0>>, <<-5, -5, 0>>, <<-5, 5, 0>> >>
\* Faulty variant: the second triangle repeats the first one's corner 0.
quadIndices_Repeated == << 0, 1, 3, 1, 0, 3 >>
quadIndices == << 0, 1, 3, 1, 2, 3 >>
triangleVertices == << <<-5, -5, 0>>, <<5, -5, 0>>, <<0, 5, 0>> >>
uniformVertices == << <<5, -5, 0>>, <<-5, -5, 0>>, <<0, 5, 0>> >>

NoShader == [created |-> FALSE, compiles |-> 0, compileStatus |-> FALSE,
             deleteCalls |-> 0, flagged |-> FALSE, exists |-> FALSE]
NoProgram == [created |-> FALSE, attached |-> {}, attachCalls |-> 0, links |-> 0,
              linkStatus |-> FALSE, deleteCalls |-> 0, flagged |-> FALSE,
              exists |-> FALSE]
NoVAO == [exists |-> FALSE, deleteCalls |-> 0, attribEnabled |-> FALSE,
          attribBuffer |-> "none", attribSize |-> 0, attribStride |-> 0,
          attribOffset |-> 0, elementBuffer |-> "none"]
NoBuffer == [exists |-> FALSE, deleteCalls |-> 0, data |-> << >>]
NoDraw == [kind |-> "none", count |-> 0, handle |-> "none", linked |-> FALSE,
           green |-> 0, frame |-> 0, visited |-> << >>]
NoFrameViewport == [clear |-> << >>, draw |-> << >>, present |-> << >>]

Count(s, m) == Cardinality({ i \in 1..Len(s) : s[i] = m })

Init ==
    /\ prog \in Programs
    /\ pc = "init"
    /\ window = "unset"
    /\ contextCurrent = FALSE
    /\ resizeCallback = FALSE
    /\ gladLoaded = FALSE
    /\ terminateCalls = 0
    /\ returned = FALSE
    /\ status = 0
    /\ out = << >>
    /\ success \in {0, 1}
    /\ shader = [s \in Stages |-> NoShader]
    /\ program = NoProgram
    /\ vao = NoVAO
    /\ vbo = NoBuffer
    /\ ebo = NoBuffer
    /\ boundVAO = FALSE
    /\ boundArray = FALSE
    /\ currentProgram = "none"
    /\ useArg = "none"
    /\ clearColor = <<0, 0, 0, 0>>
    /\ colorBuffer = "undefined"
    /\ viewport = <<0, 0, 0, 0>>
    /\ clock = 0
    /\ greenValue = 0
    /\ uniformGreen = 0
    /\ shouldClose = FALSE
    /\ escKey = "RELEASE"
    /\ closeCause = "none"
    /\ frames = 0
    /\ presented = 0
    /\ iterDraws = 0
    /\ iterUniforms = 0
    /\ drawsAfterClose = 0
    /\ lastDraw = NoDraw
    /\ iterSteps = << >>
    /\ clockAge = "unread"
    /\ uniformAge = "unset"
    /\ prevClock = -1
    /\ prevGreen = 0
    /\ lastReported = << >>
    /\ frameViewport = NoFrameViewport

(***************************************************************************)
(* Phase 1: context / window setup.                                        *)
(***************************************************************************)

\* glfwInit and the window hints.
GlfwInit ==
    /\ pc = "init"
    /\ pc' = "createWindow"
    /\ UNCHANGED << prog, out, viewport, setupVars, exitVars, buildVars,
                    geomVars, frameVars, inputVars, histVars >>

\* GLFWwindow* window = glfwCreateWindow(...): NULL or a window.
CreateWindow ==
    /\ pc = "createWindow"
    /\ \E w \in {"NULL", "valid"} : window' = w
    /\ pc' = "checkWindow"
    /\ UNCHANGED << prog, out, viewport, contextCurrent, resizeCallback,
                    gladLoaded, exitVars, buildVars, geomVars, frameVars,
                    inputVars, histVars >>

\* Faulty variant: the failure branch returns without calling glfwTerminate.
WindowCreationFailed_NoTerminate ==
    /\ pc = "checkWindow"
    /\ window = "NULL"
    /\ out' = Append(out, MsgWindow)
    /\ returned' = TRUE
    /\ status' = -1
    /\ pc' = "done"
    /\ UNCHANGED << prog, viewport, setupVars, terminateCalls, buildVars,
                    geomVars, frameVars, inputVars, histVars >>

\* if (window == NULL) { cout << ...; glfwTerminate(); return -1; }
WindowCreationFailed ==
    /\ pc = "checkWindow"
    /\ window = "NULL"
    /\ out' = Append(out, MsgWindow)
    /\ terminateCalls' = terminateCalls + 1
    /\ returned' = TRUE
    /\ status' = -1
    /\ pc' = "done"
    /\ UNCHANGED << prog, viewport, setupVars, buildVars, geomVars, frameVars,
                    inputVars, histVars >>

\* glfwMakeContextCurrent(window): the context's viewport starts as the
\* window's size.
MakeContextCurrent ==
    /\ pc = "checkWindow"
    /\ window = "valid"
    /\ contextCurrent' = TRUE
    /\ viewport' = <<0, 0, SCR_WIDTH, SCR_HEIGHT>>
    /\ pc' = "setCallback"
    /\ UNCHANGED << prog, out, window, resizeCallback, gladLoaded, exitVars,
                    buildVars, geomVars, frameVars, inputVars, histVars >>

\* glfwSetFramebufferSizeCallback(window, framebuffer_size_callback)
SetFramebufferSizeCallback ==
    /\ pc = "setCallback"
    /\ resizeCallback' = TRUE
    /\ pc' = "loadGL"
    /\ UNCHANGED << prog, out, viewport, window, contextCurrent, gladLoaded,
                    exitVars, buildVars, geomVars, frameVars, inputVars,
                    histVars >>

\* Faulty variant: the pipeline build is skipped in every program.
AfterLoad_SkipBuild(p) == "loopCheck"

\* Where main continues once the GL functions are loaded: hello_window_clear
\* has no pipeline to build.
AfterLoad(p) == IF p = "hello_window_clear" THEN "loopCheck" ELSE "vsCompile"

\* gladLoadGLLoader(...) returned non-zero.
GladLoaded ==
    /\ pc = "loadGL"
    /\ gladLoaded' = TRUE
    /\ pc' = AfterLoad(prog)
    /\ UNCHANGED << prog, out, viewport, window, contextCurrent,
                    resizeCallback, exitVars, buildVars, geomVars, frameVars,
                    inputVars, histVars >>

\* if (!gladLoadGLLoader(...)) { cout << ...; return -1; }
GladFailed ==
    /\ pc = "loadGL"
    /\ out' = Append(out, MsgGlad)
    /\ returned' = TRUE
    /\ status' = -1
    /\ pc' = "done"
    /\ UNCHANGED << prog, viewport, setupVars, terminateCalls, buildVars,
                    geomVars, frameVars, inputVars, histVars >>

(***************************************************************************)
(* Phase 2: pipeline build (the three drawing programs).                   *)
(***************************************************************************)

\* glCreateShader, glShaderSource, glCompileShader on one stage; the compile
\* status is the driver's verdict on the source.
CompileShader(sh, ok) ==
    [sh EXCEPT !.created = TRUE, !.exists = TRUE,
               !.compiles = @ + 1, !.compileStatus = ok]

\* Faulty variant: the query does not write success, which keeps its old value.
CompileStatusQuery_Stale(stage) == success

\* glGetShaderiv(shader, GL_COMPILE_STATUS, &success)
CompileStatusQuery(stage) == IF shader[stage].compileStatus THEN 1 ELSE 0

\* glGetProgramiv(shaderProgram, GL_LINK_STATUS, &success)
LinkStatusQuery == IF program.linkStatus THEN 1 ELSE 0

\* Faulty variant: a failure is printed twice.
Report_Twice(flag, msg) ==
    IF flag = 0 THEN Append(Append(out, msg), msg) ELSE out

\* if (!success) { glGet...InfoLog(...); cout << msg << infoLog << endl; }
Report(flag, msg) == IF flag = 0 THEN Append(out, msg) ELSE out

CompileVertexShader ==
    /\ pc = "vsCompile"
    /\ \E ok \in BOOLEAN :
          shader' = [shader EXCEPT !["vertex"] = CompileShader(@, ok)]
    /\ pc' = "vsCheck"
    /\ UNCHANGED << prog, out, viewport, setupVars, exitVars, success, program,
                    geomVars, frameVars, inputVars, histVars >>

CheckVertexShader ==
    /\ pc = "vsCheck"
    /\ success' = CompileStatusQuery("vertex")
    /\ out' = Report(success', MsgVertex)
    /\ pc' = "fsCompile"
    /\ UNCHANGED << prog, viewport, setupVars, exitVars, shader, program,
                    geomVars, frameVars, inputVars, histVars >>

CompileFragmentShader ==
    /\ pc = "fsCompile"
    /\ \E ok \in BOOLEAN :
          shader' = [shader EXCEPT !["fragment"] = CompileShader(@, ok)]
    /\ pc' = "fsCheck"
    /\ UNCHANGED << prog, out, viewport, setupVars, exitVars, success, program,
                    geomVars, frameVars, inputVars, histVars >>

CheckFragmentShader ==
    /\ pc = "fsCheck"
    /\ success' = CompileStatusQuery("fragment")
    /\ out' = Report(success', MsgFragment)
    /\ pc' = "attach"
    /\ UNCHANGED << prog, viewport, setupVars, exitVars, shader, program,
                    geomVars, frameVars, inputVars, histVars >>

\* shaderProgram = glCreateProgram(); glAttachShader x 2
AttachShaders ==
    /\ pc = "attach"
    /\ program' = [program EXCEPT !.created = TRUE, !.exists = TRUE,
                                  !.attached = {"vertex", "fragment"},
                                  !.attachCalls = @ + 2]
    /\ pc' = "link"
    /\ UNCHANGED << prog, out, viewport, setupVars, exitVars, success, shader,
                    geomVars, frameVars, inputVars, histVars >>

\* glLinkProgram(shaderProgram): the link status is the driver's verdict;
\* the program does not relate it to the compile results.
LinkProgram ==
    /\ pc = "link"
    /\ \E ok \in BOOLEAN :
          program' = [program EXCEPT !.links = @ + 1, !.linkStatus = ok]
    /\ pc' = "linkCheck"
    /\ UNCHANGED << prog, out, viewport, setupVars, exitVars, success, shader,
                    geomVars, frameVars, inputVars, histVars >>

\* Faulty variant: a link failure ends main.
AfterLinkCheck_Abort(flag) == IF flag = 0 THEN "done" ELSE "deleteVS"

\* Where main continues after the link status check.
AfterLinkCheck(flag) == "deleteVS"

CheckLink ==
    /\ pc = "linkCheck"
    /\ success' = LinkStatusQuery
    /\ out' = Report(success', MsgLink)
    /\ pc' = AfterLinkCheck(success')
    /\ UNCHANGED << prog, viewport, setupVars, exitVars, shader, program,
                    geomVars, frameVars, inputVars, histVars >>

\* glDeleteShader(s): a shader still attached to a program object is only
\* flagged for deletion and lives until it is detached; an unattached one
\* is deleted at once.
DeleteShader(sh, isAttached) ==
    IF isAttached
    THEN [sh EXCEPT !.deleteCalls = @ + 1, !.flagged = TRUE]
    ELSE [sh EXCEPT !.deleteCalls = @ + 1, !.exists = FALSE]

DeleteVertexShader ==
    /\ pc = "deleteVS"
    /\ shader' = [shader EXCEPT !["vertex"] =
                      DeleteShader(@, "vertex" \in program.attached)]
    /\ pc' = "deleteFS"
    /\ UNCHANGED << prog, out, viewport, setupVars, exitVars, success, program,
                    geomVars, frameVars, inputVars, histVars >>

DeleteFragmentShader ==
    /\ pc = "deleteFS"
    /\ shader' = [shader EXCEPT !["fragment"] =
                      DeleteShader(@, "fragment" \in program.attached)]
    /\ pc' = "genObjects"
    /\ UNCHANGED << prog, out, viewport, setupVars, exitVars, success, program,
                    geomVars, frameVars, inputVars, histVars >>

(***************************************************************************)
(* Phase 2, continued: geometry upload.                                    *)
(***************************************************************************)

\* Faulty variant: the upload leaves out the last vertex of the array.
Vertices_Short(p) ==
    IF p = "hello_rectangle" THEN SubSeq(quadVertices, 1, 3)
    ELSE IF p = "shaders_uniform" THEN SubSeq(uniformVertices, 1, 2)
    ELSE SubSeq(triangleVertices, 1, 2)

\* float vertices[] of the running program, in tenths.
Vertices(p) ==
    IF p = "hello_rectangle" THEN quadVertices
    ELSE IF p = "shaders_uniform" THEN uniformVertices
    ELSE triangleVertices

\* Only hello_rectangle declares indices[] and an EBO.
HasIndices(p) == p = "hello_rectangle"

\* glGenVertexArrays(1, &VAO); glGenBuffers(1, &VBO); [glGenBuffers(1, &EBO)]
GenObjects ==
    /\ pc = "genObjects"
    /\ vao' = [vao EXCEPT !.exists = TRUE]
    /\ vbo' = [vbo EXCEPT !.exists = TRUE]
    /\ ebo' = IF HasIndices(prog) THEN [ebo EXCEPT !.exists = TRUE] ELSE ebo
    /\ pc' = "bindVAO"
    /\ UNCHANGED << prog, out, viewport, setupVars, exitVars, buildVars,
                    boundVAO, boundArray, frameVars, inputVars, histVars >>

\* glBindVertexArray(VAO)
SetupBindVAO ==
    /\ pc = "bindVAO"
    /\ boundVAO' = TRUE
    /\ pc' = "uploadVBO"
    /\ UNCHANGED << prog, out, viewport, setupVars, exitVars, buildVars, vao,
                    vbo, ebo, boundArray, frameVars, inputVars, histVars >>

\* glBindBuffer(GL_ARRAY_BUFFER, VBO); glBufferData(GL_ARRAY_BUFFER, ...)
UploadVertices ==
    /\ pc = "uploadVBO"
    /\ boundArray' = TRUE
    /\ vbo' = [vbo EXCEPT !.data = Vertices(prog)]
    /\ pc' = IF HasIndices(prog) THEN "uploadEBO" ELSE "attrib"
    /\ UNCHANGED << prog, out, viewport, setupVars, exitVars, buildVars, vao,
                    ebo, boundVAO, frameVars, inputVars, histVars >>

\* Faulty variant: the element buffer binding is not kept in the vertex array.
BindElementBuffer_Global(v, bound) == v

\* glBindBuffer(GL_ELEMENT_ARRAY_BUFFER, EBO): the element buffer binding is
\* part of the state of the vertex array bound at the call.
BindElementBuffer(v, bound) ==
    IF bound THEN [v EXCEPT !.elementBuffer = "EBO"] ELSE v

\* glBindBuffer(GL_ELEMENT_ARRAY_BUFFER, EBO); glBufferData(...)
UploadIndices ==
    /\ pc = "uploadEBO"
    /\ vao' = BindElementBuffer(vao, boundVAO)
    /\ ebo' = [ebo EXCEPT !.data = quadIndices]
    /\ pc' = "attrib"
    /\ UNCHANGED << prog, out, viewport, setupVars, exitVars, buildVars, vbo,
                    boundVAO, boundArray, frameVars, inputVars, histVars >>

\* glVertexAttribPointer(0, 3, GL_FLOAT, GL_FALSE, 3 * sizeof(float), 0);
\* glEnableVertexAttribArray(0): attribute 0 of the bound vertex array is
\* sourced from the buffer bound to GL_ARRAY_BUFFER at the call.
SetAttribPointer ==
    /\ pc = "attrib"
    /\ vao' = IF boundVAO
              THEN [vao EXCEPT !.attribEnabled = TRUE,
                               !.attribBuffer = IF boundArray THEN "VBO" ELSE "none",
                               !.attribSize = AttribSize,
                               !.attribStride = AttribStride,
                               !.attribOffset = 0]
              ELSE vao
    /\ pc' = "unbind"
    /\ UNCHANGED << prog, out, viewport, setupVars, exitVars, buildVars, vbo,
                    ebo, boundVAO, boundArray, frameVars, inputVars, histVars >>

\* hello_triangle, hello_rectangle: glBindBuffer(GL_ARRAY_BUFFER, 0);
\* glBindVertexArray(0)
UnbindAfterSetup ==
    /\ pc = "unbind"
    /\ prog # "shaders_uniform"
    /\ boundArray' = FALSE
    /\ boundVAO' = FALSE
    /\ pc' = "loopCheck"
    /\ UNCHANGED << prog, out, viewport, setupVars, exitVars, buildVars, vao,
                    vbo, ebo, frameVars, inputVars, histVars >>

\* shaders_uniform: glBindVertexArray(VAO) once, before the loop.
BindBeforeLoop ==
    /\ pc = "unbind"
    /\ prog = "shaders_uniform"
    /\ boundVAO' = TRUE
    /\ pc' = "loopCheck"
    /\ UNCHANGED << prog, out, viewport, setupVars, exitVars, buildVars, vao,
                    vbo, ebo, boundArray, frameVars, inputVars, histVars >>

(***************************************************************************)
(* Phase 3: render loop.                                                   *)
(***************************************************************************)

\* Faulty variant: the loop is entered only with a linked program.
LoopCondition_Linked == ~shouldClose /\ program.linkStatus

\* Faulty variant: the loop tests the key instead of the flag.
LoopCondition_Key == escKey # "PRESS"

\* Faulty variant: the loop never tests the flag.
LoopCondition_Always == TRUE

\* while (!glfwWindowShouldClose(window))
LoopCondition == ~shouldClose

\* Faulty variant: the de-allocation block is left out.
AfterLoop_NoDealloc(p) == "terminate"

\* Where main continues when the loop condition is false.
AfterLoop(p) == IF p = "hello_window_clear" THEN "terminate" ELSE "deleteVAO"

\* Iterations are counted up to MaxFrames; later ones count as MaxFrames.
Counted(n) == IF n < MaxFrames THEN n + 1 ELSE MaxFrames

\* A value of an earlier iteration is no longer this iteration's.
Aged(age) == IF age = "fresh" THEN "stale" ELSE age

LoopEnter ==
    /\ pc = "loopCheck"
    /\ LoopCondition
    /\ frames' = Counted(frames)
    /\ iterDraws' = 0
    /\ iterUniforms' = 0
    /\ iterSteps' = << >>
    /\ frameViewport' = NoFrameViewport
    /\ clockAge' = Aged(clockAge)
    /\ uniformAge' = Aged(uniformAge)
    /\ pc' = "input"
    /\ UNCHANGED << prog, out, viewport, setupVars, exitVars, buildVars,
                    geomVars, frameVars, inputVars, presented, drawsAfterClose,
                    lastDraw, prevClock, prevGreen, lastReported >>

LoopExit ==
    /\ pc = "loopCheck"
    /\ ~LoopCondition
    /\ pc' = AfterLoop(prog)
    /\ UNCHANGED << prog, out, viewport, setupVars, exitVars, buildVars,
                    geomVars, frameVars, inputVars, histVars >>

\* Faulty variant: the flag is set whatever the key state is.
ProcessInputFlag_Always(key, flag) == TRUE

\* Faulty variant: the pressed key does not set the flag.
ProcessInputFlag_Ignored(key, flag) == flag

\* processInput: if (glfwGetKey(window, GLFW_KEY_ESCAPE) == GLFW_PRESS)
\*                   glfwSetWindowShouldClose(window, true);
ProcessInputFlag(key, flag) == IF key = "PRESS" THEN TRUE ELSE flag

ProcessInput ==
    /\ pc = "input"
    /\ shouldClose' = ProcessInputFlag(escKey, shouldClose)
    /\ closeCause' = IF shouldClose' /\ ~shouldClose THEN "key" ELSE closeCause
    /\ iterSteps' = Append(iterSteps, "input")
    /\ pc' = "clear"
    /\ UNCHANGED << prog, out, viewport, setupVars, exitVars, buildVars,
                    geomVars, frameVars, escKey, frames, presented, iterDraws,
                    iterUniforms, drawsAfterClose, lastDraw, clockAge,
                    uniformAge, prevClock, prevGreen, lastReported,
                    frameViewport >>

\* Faulty variant: the de-allocation block follows the clear.
AfterClear_Dealloc(p) == IF p = "hello_window_clear" THEN "swap" ELSE "deleteVAO"

\* Faulty variant: events are polled right after the clear.
AfterClear_Poll(p) == "poll"

\* Faulty variant: the program is linked again in every iteration.
AfterClear_Relink(p) == IF p = "hello_window_clear" THEN "swap" ELSE "link"

\* Faulty variant: the draw is skipped in every program.
AfterClear_SkipDraw(p) == "swap"

\* The step after glClear: hello_window_clear has nothing to draw.
AfterClear(p) == IF p = "hello_window_clear" THEN "swap" ELSE "useProgram"

\* glClearColor(0.2f, 0.3f, 0.3f, 1.0f); glClear(GL_COLOR_BUFFER_BIT)
Clear ==
    /\ pc = "clear"
    /\ clearColor' = <<2, 3, 3, 10>>
    /\ colorBuffer' = "cleared"
    /\ frameViewport' = [frameViewport EXCEPT !.clear = viewport]
    /\ iterSteps' = Append(iterSteps, "clear")
    /\ pc' = AfterClear(prog)
    /\ UNCHANGED << prog, out, viewport, setupVars, exitVars, buildVars,
                    geomVars, currentProgram, useArg, clock, greenValue,
                    uniformGreen, inputVars, frames, presented, iterDraws,
                    iterUniforms, drawsAfterClose, lastDraw, clockAge,
                    uniformAge, prevClock, prevGreen, lastReported >>

\* Faulty variant: every drawing program updates the uniform.
UsesUniform_Every(p) == TRUE

\* Only shaders_uniform updates a uniform between glUseProgram and the draw.
UsesUniform(p) == p = "shaders_uniform"

\* glUseProgram(shaderProgram): a program that is not linked cannot be made
\* current (GL_INVALID_OPERATION, the current program is kept).
UseProgram ==
    /\ pc = "useProgram"
    /\ useArg' = "shaderProgram"
    /\ currentProgram' = IF program.exists /\ program.linkStatus
                         THEN "shaderProgram" ELSE currentProgram
    /\ iterSteps' = Append(iterSteps, "use")
    /\ pc' = IF UsesUniform(prog) THEN "uniform" ELSE "loopBindVAO"
    /\ UNCHANGED << prog, out, viewport, setupVars, exitVars, buildVars,
                    geomVars, clearColor, colorBuffer, clock, greenValue,
                    uniformGreen, inputVars, frames, presented, iterDraws,
                    iterUniforms, drawsAfterClose, lastDraw, clockAge,
                    uniformAge, prevClock, prevGreen, lastReported,
                    frameViewport >>

\* sin(timeValue), in units of 1/2000, for timeValue in ticks of pi/4.
SinTable == << 0, 1414, 2000, 1414, 0, -1414, -2000, -1414 >>
Sin(t) == SinTable[(t % Len(SinTable)) + 1]

\* Faulty variant: the sine runs at twice the rate.
GreenValue_DoubleRate(t) == Sin(2 * t) \div 2 + 1000


\* float greenValue = sin(timeValue) / 2.0 + 0.5, in units of 1/2000.
GreenValue(t) == Sin(t) \div 2 + 1000

\* double timeValue = glfwGetTime(); greenValue = ...;
\* vertexColorLocation = glGetUniformLocation(shaderProgram, "ourColor");
\* glUniform4f(vertexColorLocation, 0.0f, greenValue, 0.0f, 1.0f): the
\* write reaches the uniform only when the linked program is current.
UpdateUniform ==
    /\ pc = "uniform"
    /\ \E t \in clock..MaxTime :
          /\ clock' = t
          /\ greenValue' = GreenValue(t)
    /\ clockAge' = "fresh"
    /\ prevClock' = IF clockAge = "unread" THEN -1 ELSE clock
    /\ prevGreen' = greenValue
    /\ uniformGreen' = IF currentProgram = "shaderProgram"
                       THEN greenValue' ELSE uniformGreen
    /\ uniformAge' = IF currentProgram = "shaderProgram"
                     THEN "fresh" ELSE uniformAge
    /\ iterUniforms' = iterUniforms + 1
    /\ iterSteps' = Append(iterSteps, "uniform")
    /\ pc' = "draw"
    /\ UNCHANGED << prog, out, viewport, setupVars, exitVars, buildVars,
                    geomVars, currentProgram, useArg, clearColor, colorBuffer,
                    inputVars, frames, presented, iterDraws, drawsAfterClose,
                    lastDraw, lastReported, frameViewport >>

\* hello_triangle, hello_rectangle: glBindVertexArray(VAO) in the loop.
LoopBindVAO ==
    /\ pc = "loopBindVAO"
    /\ boundVAO' = TRUE
    /\ iterSteps' = Append(iterSteps, "bind")
    /\ pc' = "draw"
    /\ UNCHANGED << prog, out, viewport, setupVars, exitVars, buildVars, vao,
                    vbo, ebo, boundArray, frameVars, inputVars, frames,
                    presented, iterDraws, iterUniforms, drawsAfterClose,
                    lastDraw, clockAge, uniformAge, prevClock, prevGreen,
                    lastReported, frameViewport >>

\* The vertex indices a draw call of n vertices fetches through the bound
\* vertex array: first, first + 1, ... for glDrawArrays (first = 0), the
\* first n elements of the vertex array's element buffer for glDrawElements.
Fetched(kind, n) ==
    IF kind = "arrays" THEN [i \in 1..n |-> i - 1]
    ELSE IF boundVAO /\ vao.elementBuffer = "EBO" /\ n <= Len(ebo.data)
    THEN SubSeq(ebo.data, 1, n)
    ELSE << >>

\* What one draw call records and does to the back buffer.
DrawCall(kind, n) ==
    /\ lastDraw' = [kind |-> kind, count |-> n, handle |-> useArg,
                    linked |-> program.linkStatus, green |-> uniformGreen,
                    frame |-> frames, visited |-> Fetched(kind, n)]
    /\ iterSteps' = Append(iterSteps, "draw")
    /\ iterDraws' = iterDraws + 1
    /\ drawsAfterClose' = IF shouldClose THEN drawsAfterClose + 1
                          ELSE drawsAfterClose
    /\ colorBuffer' = "drawn"
    /\ frameViewport' = [frameViewport EXCEPT !.draw = viewport]

\* glDrawArrays(GL_TRIANGLES, 0, 3)
DrawArrays ==
    /\ pc = "draw"
    /\ ~HasIndices(prog)
    /\ DrawCall("arrays", TriangleVertexCount)
    /\ pc' = "swap"
    /\ UNCHANGED << prog, out, viewport, setupVars, exitVars, buildVars,
                    geomVars, currentProgram, useArg, clearColor, clock,
                    greenValue, uniformGreen, inputVars, frames, presented,
                    iterUniforms, clockAge, uniformAge, prevClock, prevGreen,
                    lastReported >>

\* glDrawElements(GL_TRIANGLES, 6, GL_UNSIGNED_INT, 0)
DrawElements ==
    /\ pc = "draw"
    /\ HasIndices(prog)
    /\ DrawCall("elements", DrawElementsCount)
    /\ pc' = "swap"
    /\ UNCHANGED << prog, out, viewport, setupVars, exitVars, buildVars,
                    geomVars, currentProgram, useArg, clearColor, clock,
                    greenValue, uniformGreen, inputVars, frames, presented,
                    iterUniforms, clockAge, uniformAge, prevClock, prevGreen,
                    lastReported >>

\* glfwSwapBuffers(window)
SwapBuffers ==
    /\ pc = "swap"
    /\ presented' = Counted(presented)
    /\ colorBuffer' = "undefined"
    /\ frameViewport' = [frameViewport EXCEPT !.present = viewport]
    /\ iterSteps' = Append(iterSteps, "swap")
    /\ pc' = "poll"
    /\ UNCHANGED << prog, out, viewport, setupVars, exitVars, buildVars,
                    geomVars, currentProgram, useArg, clearColor, clock,
                    greenValue, uniformGreen, inputVars, frames, iterDraws,
                    iterUniforms, drawsAfterClose, lastDraw, clockAge,
                    uniformAge, prevClock, prevGreen, lastReported >>

\* Faulty variant: width and height are passed in the wrong order.
framebuffer_size_callback_Swapped(width, height) == <<0, 0, height, width>>

\* framebuffer_size_callback: glViewport(0, 0, width, height)
framebuffer_size_callback(width, height) == <<0, 0, width, height>>

\* glfwPollEvents(): refreshes the cached key state, records a close
\* request from the window manager in the should-close flag, and calls the
\* registered resize callback for a reported size change.
PollEvents ==
    /\ pc = "poll"
    /\ \E key \in {"PRESS", "RELEASE"} : escKey' = key
    /\ \E request \in BOOLEAN :
          /\ shouldClose' = (shouldClose \/ request)
          /\ closeCause' = IF request /\ ~shouldClose THEN "request" ELSE closeCause
    /\ \E size \in Sizes \cup {<< >>} :
          /\ viewport' = IF size # << >> /\ resizeCallback
                         THEN framebuffer_size_callback(size[1], size[2])
                         ELSE viewport
          /\ lastReported' = IF size # << >> THEN size ELSE lastReported
    /\ iterSteps' = Append(iterSteps, "poll")
    /\ pc' = "loopCheck"
    /\ UNCHANGED << prog, out, setupVars, exitVars, buildVars, geomVars,
                    frameVars, frames, presented, iterDraws, iterUniforms,
                    drawsAfterClose, lastDraw, clockAge, uniformAge, prevClock,
                    prevGreen, frameViewport >>

(***************************************************************************)
(* Shutdown.                                                               *)
(***************************************************************************)

\* glDeleteVertexArrays(1, &VAO)
DeleteVAO ==
    /\ pc = "deleteVAO"
    /\ vao' = [vao EXCEPT !.exists = FALSE, !.deleteCalls = @ + 1]
    /\ boundVAO' = FALSE
    /\ pc' = "deleteVBO"
    /\ UNCHANGED << prog, out, viewport, setupVars, exitVars, buildVars, vbo,
                    ebo, boundArray, frameVars, inputVars, histVars >>

\* glDeleteBuffers(1, &VBO)
DeleteVBO ==
    /\ pc = "deleteVBO"
    /\ vbo' = [vbo EXCEPT !.exists = FALSE, !.deleteCalls = @ + 1]
    /\ boundArray' = FALSE
    /\ pc' = IF HasIndices(prog) THEN "deleteEBO" ELSE "deleteProgram"
    /\ UNCHANGED << prog, out, viewport, setupVars, exitVars, buildVars, vao,
                    ebo, boundVAO, frameVars, inputVars, histVars >>

\* glDeleteBuffers(1, &EBO)
DeleteEBO ==
    /\ pc = "deleteEBO"
    /\ ebo' = [ebo EXCEPT !.exists = FALSE, !.deleteCalls = @ + 1]
    /\ pc' = "deleteProgram"
    /\ UNCHANGED << prog, out, viewport, setupVars, exitVars, buildVars, vao,
                    vbo, boundVAO, boundArray, frameVars, inputVars, histVars >>

\* glDeleteProgram(shaderProgram): a program that is current is only
\* flagged for deletion; otherwise it is deleted, its shaders are detached
\* and the ones flagged for deletion go with it.
DeleteProgram ==
    /\ pc = "deleteProgram"
    /\ IF currentProgram = "shaderProgram"
       THEN /\ program' = [program EXCEPT !.flagged = TRUE, !.deleteCalls = @ + 1]
            /\ shader' = shader
       ELSE /\ program' = [program EXCEPT !.exists = FALSE, !.attached = {},
                                          !.deleteCalls = @ + 1]
            /\ shader' = [s \in Stages |->
                            IF s \in program.attached /\ shader[s].flagged
                            THEN [shader[s] EXCEPT !.exists = FALSE]
                            ELSE shader[s]]
    /\ pc' = "terminate"
    /\ UNCHANGED << prog, out, viewport, setupVars, exitVars, success,
                    geomVars, frameVars, inputVars, histVars >>

\* glfwTerminate destroys the window and its context, and with the context
\* every object that still exists in it.
Released(obj) == [obj EXCEPT !.exists = FALSE]

\* glfwTerminate(); return 0;
Terminate ==
    /\ pc = "terminate"
    /\ terminateCalls' = terminateCalls + 1
    /\ contextCurrent' = FALSE
    /\ currentProgram' = "none"
    /\ boundVAO' = FALSE
    /\ boundArray' = FALSE
    /\ shader' = [s \in Stages |-> Released(shader[s])]
    /\ program' = Released(program)
    /\ vao' = Released(vao)
    /\ vbo' = Released(vbo)
    /\ ebo' = Released(ebo)
    /\ returned' = TRUE
    /\ status' = 0
    /\ pc' = "done"
    /\ UNCHANGED << prog, out, viewport, window, resizeCallback, gladLoaded,
                    success, useArg, clearColor, colorBuffer, clock,
                    greenValue, uniformGreen, inputVars, histVars >>

Next ==
    \/ GlfwInit
    \/ CreateWindow
    \/ WindowCreationFailed
    \/ MakeContextCurrent
    \/ SetFramebufferSizeCallback
    \/ GladLoaded
    \/ GladFailed
    \/ CompileVertexShader
    \/ CheckVertexShader
    \/ CompileFragmentShader
    \/ CheckFragmentShader
    \/ AttachShaders
    \/ LinkProgram
    \/ CheckLink
    \/ DeleteVertexShader
    \/ DeleteFragmentShader
    \/ GenObjects
    \/ SetupBindVAO
    \/ UploadVertices
    \/ UploadIndices
    \/ SetAttribPointer
    \/ UnbindAfterSetup
    \/ BindBeforeLoop
    \/ LoopEnter
    \/ LoopExit
    \/ ProcessInput
    \/ Clear
    \/ UseProgram
    \/ UpdateUniform
    \/ LoopBindVAO
    \/ DrawArrays
    \/ DrawElements
    \/ SwapBuffers
    \/ PollEvents
    \/ DeleteVAO
    \/ DeleteVBO
    \/ DeleteEBO
    \/ DeleteProgram
    \/ Terminate

Spec == Init /\ [][Next]_vars

\* main runs on one thread that keeps executing and every library call
\* returns: the next statement is always eventually executed.
FairSpec == Spec /\ WF_vars(Next)

(***************************************************************************)
(* Positions of main(), in program order.                                  *)
(***************************************************************************)
PcOrder == << "init", "createWindow", "checkWindow", "setCallback", "loadGL",
              "vsCompile", "vsCheck", "fsCompile", "fsCheck", "attach", "link",
              "linkCheck", "deleteVS", "deleteFS", "genObjects", "bindVAO",
              "uploadVBO", "uploadEBO", "attrib", "unbind", "loopCheck", "input",
              "clear", "useProgram", "uniform", "loopBindVAO", "draw", "swap",
              "poll", "deleteVAO", "deleteVBO", "deleteEBO", "deleteProgram",
              "terminate", "done" >>
Rank(p) == CHOOSE i \in 1..Len(PcOrder) : PcOrder[i] = p
Past(p) == Rank(pc) > Rank(p)
InLoop == Past("unbind") /\ ~Past("poll")
LoopBody == Past("loopCheck") /\ ~Past("poll")
Drawing == prog \in DrawingPrograms
SetupOK == window = "valid" /\ gladLoaded

(***************************************************************************)
(* C1 (as stated): once the should-close flag is true no draw call is      *)
(* issued any more.                                                        *)
(***************************************************************************)
C1_NoDrawAfterFlag == drawsAfterClose = 0

(***************************************************************************)
(* C1 (amended): when Escape is pressed the next processInput step sets    *)
(* the flag; the iteration in which that happens still runs to its end, so *)
(* at most one draw call (that iteration's) follows the flag becoming      *)
(* true, exactly one in a drawing program whose flag was set by the key,   *)
(* and after the next loop-condition check no further iteration starts.    *)
(***************************************************************************)
C1_ExitKeyTermination ==
    /\ [][(pc = "input" /\ escKey = "PRESS") => shouldClose']_vars
    /\ [][(pc = "loopCheck" /\ shouldClose) => pc' # "input"]_vars
    /\ [](drawsAfterClose <= 1)
    /\ []((Drawing /\ closeCause = "key" /\ Past("draw")) => drawsAfterClose = 1)
    /\ []((closeCause = "request") => drawsAfterClose = 0)

C1_Witness ==
    /\ prog = "hello_triangle"
    /\ closeCause = "key"
    /\ pc = "done"
    /\ returned
    /\ drawsAfterClose = 1

(***************************************************************************)
(* C2: a draw call is issued only with a program whose link succeeded.     *)
(***************************************************************************)
C2_DrawOnlyLinked == lastDraw.kind # "none" => lastDraw.linked

(***************************************************************************)
(* C3 (as stated): in each of the four programs every loop iteration       *)
(* issues exactly one draw call.                                           *)
(***************************************************************************)
C3_OneDrawInAllFour == (pc = "poll") => iterDraws = 1

(***************************************************************************)
(* C3 (amended): every loop iteration of the three drawing programs issues *)
(* exactly one draw call, never zero and never more than one, and an       *)
(* iteration of hello_window_clear issues none.                            *)
(***************************************************************************)
C3_OneDrawPerIteration ==
    /\ iterDraws <= 1
    /\ (LoopBody /\ Past("draw")) => iterDraws = (IF Drawing THEN 1 ELSE 0)
    /\ (LoopBody /\ ~Past("draw")) => iterDraws = 0
    /\ (pc = "loopCheck" /\ frames > 0) => iterDraws = (IF Drawing THEN 1 ELSE 0)

C3_Witness ==
    /\ prog = "hello_rectangle"
    /\ pc = "loopCheck"
    /\ frames = 2
    /\ iterDraws = 1

(***************************************************************************)
(* C4 (as stated): the indexed program writes the uniform colour before    *)
(* each of its indexed draws.                                              *)
(***************************************************************************)
C4_IndexedAnimates ==
    (pc = "swap" /\ lastDraw.kind = "elements") => iterUniforms = 1

(***************************************************************************)
(* C4 (amended): the indexed draw (6 indices over 4 unique vertices) is    *)
(* hello_rectangle's and that program never writes a uniform; the program  *)
(* that animates the uniform colour is shaders_uniform, which draws        *)
(* non-indexed with vertex count 3 and in every iteration issues exactly   *)
(* one uniform write, of the sine value of the clock just read, before the *)
(* draw; hello_triangle draws non-indexed with count 3 and no uniform.     *)
(***************************************************************************)
C4_VariantsOfDraw ==
    /\ prog # "shaders_uniform" => (iterUniforms = 0 /\ uniformGreen = 0)
    /\ (pc = "swap" /\ prog = "hello_rectangle") =>
          /\ lastDraw.kind = "elements"
          /\ lastDraw.count = 6
          /\ Len(ebo.data) = 6
          /\ Cardinality({ vbo.data[i] : i \in 1..Len(vbo.data) }) = 4
    /\ (pc = "swap" /\ prog = "hello_triangle") =>
          /\ lastDraw.kind = "arrays"
          /\ lastDraw.count = 3
    /\ (pc \in {"draw", "swap"} /\ prog = "shaders_uniform") =>
          /\ iterUniforms = 1
          /\ greenValue = SinTable[(clock % 8) + 1] \div 2 + 1000
          /\ currentProgram = "shaderProgram" => uniformGreen = greenValue
    /\ (pc = "swap" /\ prog = "shaders_uniform") =>
          /\ lastDraw.kind = "arrays"
          /\ lastDraw.count = 3
          /\ lastDraw.green = uniformGreen

C4_Witness ==
    /\ prog = "hello_rectangle"
    /\ pc = "swap"
    /\ frames = 2
    /\ lastDraw.kind = "elements"
    /\ iterUniforms = 0

(***************************************************************************)
(* C5 (as stated): whenever window creation succeeded main can only end    *)
(* with status 0.                                                          *)
(***************************************************************************)
C5_OnlyWindowFatal == (returned /\ window = "valid") => status = 0

(***************************************************************************)
(* C5 (amended): window creation failure and GL function loading failure   *)
(* are the only fatal errors. When both succeeded main ends only by        *)
(* returning 0 after the render loop was entered, whatever the compile and *)
(* link outcomes; a non-zero status means one of those two failures.       *)
(***************************************************************************)
C5_FatalErrors ==
    /\ (pc = "done" /\ SetupOK) => (returned /\ status = 0 /\ frames >= 1)
    /\ (returned /\ status # 0) => (window = "NULL" \/ ~gladLoaded)
    /\ (pc = "done" /\ window = "valid" /\ ~gladLoaded) =>
          (returned /\ status # 0 /\ frames = 0)
    /\ returned <=> pc = "done"

C5_Witness ==
    /\ prog = "hello_triangle"
    /\ pc = "done"
    /\ returned
    /\ status = 0
    /\ ~shader["vertex"].compileStatus
    /\ ~program.linkStatus

(***************************************************************************)
(* C6: when glfwCreateWindow returns NULL, in every program, the message   *)
(* "Failed to create GLFW window" is emitted, glfwTerminate is called and  *)
(* main returns non-zero at once: no context is made current, no GL        *)
(* function is loaded, no shader is compiled, no buffer is created and no  *)
(* loop iteration runs.                                                    *)
(***************************************************************************)
C6_WindowCreationFailed ==
    window = "NULL" =>
        /\ pc \in {"checkWindow", "done"}
        /\ pc = "done" =>
              /\ out = << MsgWindow >>
              /\ terminateCalls = 1
              /\ returned
              /\ status # 0
        /\ ~contextCurrent
        /\ ~resizeCallback
        /\ ~gladLoaded
        /\ \A s \in Stages : ~shader[s].created
        /\ ~program.created
        /\ ~vao.exists /\ ~vbo.exists /\ ~ebo.exists
        /\ frames = 0 /\ presented = 0 /\ lastDraw = NoDraw

C6_Witness ==
    /\ prog = "shaders_uniform"
    /\ window = "NULL"
    /\ pc = "done"
    /\ returned
    /\ status = -1

(***************************************************************************)
(* C7: for every combination of vertex-compile, fragment-compile and link  *)
(* outcomes, after window creation and GL loading succeeded a drawing      *)
(* program attaches both shaders, links, uploads the geometry, enters the  *)
(* render loop and draws with the handle shaderProgram; no step is skipped *)
(* and the program does not stop (it can always take its next step until   *)
(* main returns).                                                          *)
(***************************************************************************)
C7_FailuresDoNotStop ==
    (Drawing /\ SetupOK) =>
        /\ Past("fsCompile") => shader["vertex"].compiles = 1
        /\ Past("attach") => shader["fragment"].compiles = 1
        /\ Past("attach") => (program.attachCalls = 2 /\ program.created)
        /\ Past("link") => program.links = 1
        /\ Past("unbind") =>
              /\ vbo.data = Vertices(prog)
              /\ vao.attribEnabled /\ vao.attribBuffer = "VBO"
              /\ HasIndices(prog) => ebo.data = quadIndices
        /\ (LoopBody /\ Past("draw")) =>
              (lastDraw.handle = "shaderProgram" /\ lastDraw.frame = frames)
        /\ Past("poll") => (frames >= 1 /\ lastDraw.handle = "shaderProgram")
        /\ \/ ENABLED Next
           \/ pc = "done"
           \/ (pc = "loopCheck" /\ frames = MaxFrames)

C7_Witness ==
    /\ prog = "hello_triangle"
    /\ ~shader["vertex"].compileStatus
    /\ ~shader["fragment"].compileStatus
    /\ ~program.linkStatus
    /\ pc = "swap"
    /\ frames = 2
    /\ lastDraw.handle = "shaderProgram"

(***************************************************************************)
(* C8: the build emits a diagnostic for a stage if and only if that        *)
(* stage's status query reported failure, labelled with that stage: the    *)
(* VERTEX message iff the vertex compile failed, the FRAGMENT message iff  *)
(* the fragment compile failed, the LINKING message iff the link failed.   *)
(* No message precedes its check, and no stage's outcome causes or         *)
(* suppresses another stage's message through the shared variable         *)
(* `success`.                                                              *)
(***************************************************************************)
Emitted(m) == Count(out, m) > 0

C8_DiagnosticIffFailure ==
    /\ (Drawing /\ SetupOK) =>
          /\ Emitted(MsgVertex) <=>
                (Past("vsCheck") /\ ~shader["vertex"].compileStatus)
          /\ Emitted(MsgFragment) <=>
                (Past("fsCheck") /\ ~shader["fragment"].compileStatus)
          /\ Emitted(MsgLink) <=>
                (Past("linkCheck") /\ ~program.linkStatus)
    /\ ~(Drawing /\ SetupOK) => \A m \in BuildMsgs : ~Emitted(m)

C8_Witness ==
    /\ prog = "shaders_uniform"
    /\ pc = "deleteVS"
    /\ ~shader["vertex"].compileStatus
    /\ shader["fragment"].compileStatus
    /\ ~program.linkStatus
    /\ out = << MsgVertex, MsgLink >>

(***************************************************************************)
(* C9: each of the vertex compile, the fragment compile and the link is    *)
(* attempted exactly once whatever its outcome, a failure is reported      *)
(* exactly once, and no build diagnostic is written at any later point, in *)
(* particular not inside the render loop.                                  *)
(***************************************************************************)
C9_NoRetrySingleReport ==
    /\ [](\A s \in Stages : shader[s].compiles <= 1)
    /\ [](program.links <= 1)
    /\ [](\A m \in BuildMsgs : Count(out, m) <= 1)
    /\ []((Drawing /\ SetupOK /\ Past("linkCheck")) =>
            /\ \A s \in Stages : shader[s].compiles = 1
            /\ program.links = 1
            /\ Count(out, MsgVertex) = (IF shader["vertex"].compileStatus THEN 0 ELSE 1)
            /\ Count(out, MsgFragment) = (IF shader["fragment"].compileStatus THEN 0 ELSE 1)
            /\ Count(out, MsgLink) = (IF program.linkStatus THEN 0 ELSE 1))
    /\ [][Past("linkCheck") => out' = out]_vars

C9_Witness ==
    /\ prog = "hello_rectangle"
    /\ pc = "swap"
    /\ frames = 2
    /\ out = << MsgVertex, MsgFragment, MsgLink >>
    /\ \A s \in Stages : shader[s].compiles = 1
    /\ program.links = 1

(***************************************************************************)
(* C10: after the two glDeleteShader calls that follow the link, and       *)
(* before the first loop iteration, neither shader object exists any more. *)
(***************************************************************************)
C10_ShadersDiscarded ==
    (Drawing /\ SetupOK /\ pc = "loopCheck" /\ frames = 0) =>
        \A s \in Stages : ~shader[s].exists

(***************************************************************************)
(* C11: on every path on which main returns, each GPU-side handle the      *)
(* program created (vertex array, vertex buffer, index buffer where        *)
(* present, program, both shader objects) has had its delete call exactly  *)
(* once before the return, and none of them is still live at the return.   *)
(***************************************************************************)
Handles == << vao, vbo, ebo, program, shader["vertex"], shader["fragment"] >>

C11_HandlesReleased ==
    /\ \A i \in 1..Len(Handles) : Handles[i].deleteCalls <= 1
    /\ returned =>
          \A i \in 1..Len(Handles) :
              /\ ~Handles[i].exists
              /\ Handles[i].deleteCalls = (IF Drawing /\ SetupOK /\ (i # 3 \/ HasIndices(prog))
                                           THEN 1 ELSE 0)

C11_Witness ==
    /\ prog = "hello_rectangle"
    /\ returned
    /\ status = 0
    /\ program.linkStatus
    /\ \A i \in 1..Len(Handles) : Handles[i].deleteCalls = 1 /\ ~Handles[i].exists

(***************************************************************************)
(* C12: with the quad data (4 vertices, indices 0,1,3,1,2,3) the indexed   *)
(* draw of 6 indices visits the vertices in the order (0,1,3,1,2,3), that  *)
(* is the triangles {0,1,3} and {1,2,3}; they reference each of the 4      *)
(* stored vertices, share exactly the edge {1,3}, and no vertex position   *)
(* is stored twice in the vertex buffer.                                   *)
(***************************************************************************)
\* GL_TRIANGLES: every three fetched vertices form one triangle.
Triangles(v) == [k \in 1..(Len(v) \div 3) |-> {v[3 * k - 2], v[3 * k - 1], v[3 * k]}]

C12_QuadTraversal ==
    lastDraw.kind = "elements" =>
        /\ lastDraw.visited = << 0, 1, 3, 1, 2, 3 >>
        /\ Triangles(lastDraw.visited) = << {0, 1, 3}, {1, 2, 3} >>
        /\ Triangles(lastDraw.visited)[1] \cup Triangles(lastDraw.visited)[2]
              = { i - 1 : i \in 1..Len(vbo.data) }
        /\ Triangles(lastDraw.visited)[1] \cap Triangles(lastDraw.visited)[2] = {1, 3}
        /\ Len(vbo.data) = 4
        /\ \A i, j \in 1..Len(vbo.data) : vbo.data[i] = vbo.data[j] => i = j

C12_Witness ==
    /\ prog = "hello_rectangle"
    /\ pc = "swap"
    /\ lastDraw.kind = "elements"
    /\ lastDraw.visited = << 0, 1, 3, 1, 2, 3 >>

(***************************************************************************)
(* C13: every draw call reads only uploaded data. The indexed draw's count *)
(* does not exceed the element count of the bound index buffer and every   *)
(* index is below the number of uploaded vertices; a non-indexed draw's    *)
(* first + count does not exceed that number; with 3 floats per vertex,    *)
(* stride 12 and offset 0 every fetched vertex lies inside the vertex      *)
(* buffer of vertexCount x 12 bytes.                                       *)
(***************************************************************************)
BufferBytes == Len(vbo.data) * AttribSize * SizeofFloat

C13_DrawsReadUploadedData ==
    (LoopBody /\ Past("draw") /\ Drawing) =>
        /\ Len(lastDraw.visited) = lastDraw.count
        /\ lastDraw.kind = "elements" => lastDraw.count <= Len(ebo.data)
        /\ lastDraw.kind = "arrays" => 0 + lastDraw.count <= Len(vbo.data)
        /\ vao.attribBuffer = "VBO" /\ vao.attribEnabled
        /\ vao.attribSize = 3 /\ vao.attribStride = 12 /\ vao.attribOffset = 0
        /\ BufferBytes = Len(vbo.data) * 12
        /\ \A k \in 1..Len(lastDraw.visited) :
              /\ lastDraw.visited[k] < Len(vbo.data)
              /\ vao.attribOffset + lastDraw.visited[k] * vao.attribStride
                    + vao.attribSize * SizeofFloat <= BufferBytes

C13_Witness ==
    /\ prog = "hello_rectangle"
    /\ pc = "swap"
    /\ frames = 2
    /\ lastDraw.count = 6
    /\ Len(ebo.data) = 6
    /\ Len(vbo.data) = 4

(***************************************************************************)
(* C14 (as stated): two samples of the green value taken one half-period   *)
(* of the sine apart differ by at least a fixed positive threshold, for    *)
(* every sample time.                                                      *)
(***************************************************************************)
HalfPeriod == Len(SinTable) \div 2
Abs(x) == IF x < 0 THEN -x ELSE x
HalfPeriodApart == prevClock >= 0 /\ clock - prevClock = HalfPeriod

C14_HalfPeriodThreshold ==
    HalfPeriodApart => Abs(greenValue - prevGreen) >= 1

(***************************************************************************)
(* C14 (amended): two samples one half-period apart are mirror images      *)
(* about 0.5 (they add up to 1), so they differ by |sin t|: by at least    *)
(* 0.7 when t is an eighth of a period or more away from every zero of the *)
(* sine, and not at all when t is a zero of the sine.                      *)
(***************************************************************************)
C14_HalfPeriodMirror ==
    HalfPeriodApart =>
        /\ greenValue + prevGreen = 2000
        /\ Abs(greenValue - prevGreen) = Abs(SinTable[(prevClock % 8) + 1])
        /\ prevClock % HalfPeriod # 0 => Abs(greenValue - prevGreen) >= 1414
        /\ prevClock % HalfPeriod = 0 => greenValue = prevGreen

C14_Witness ==
    /\ prog = "shaders_uniform"
    /\ prevClock = 1
    /\ clock = 5
    /\ prevGreen = 1707
    /\ greenValue = 293

(***************************************************************************)
(* C15: whenever the window system reports a framebuffer size (w, h) the   *)
(* viewport becomes (0, 0, w, h), so after every dispatched size event the *)
(* viewport is the last reported size; the program changes the viewport by *)
(* no other means: until the first size event it is the one the context    *)
(* started with.                                                           *)
(***************************************************************************)
C15_ViewportFollowsResize ==
    /\ []((lastReported # << >>) =>
            viewport = << 0, 0, lastReported[1], lastReported[2] >>)
    /\ []((lastReported = << >> /\ Past("checkWindow") /\ window = "valid") =>
            viewport = << 0, 0, SCR_WIDTH, SCR_HEIGHT >>)
    /\ [][(pc # "checkWindow" /\ lastReported' = lastReported) => viewport' = viewport]_vars
    /\ [][lastReported' # lastReported => pc = "poll"]_vars

C15_Witness ==
    /\ lastReported = << 640, 480 >>
    /\ viewport = << 0, 0, 640, 480 >>
    /\ pc = "clear"

(***************************************************************************)
(* C16: the loop is Running while the should-close flag is false and       *)
(* ShouldClose once it is true. The flag never goes back to false; it      *)
(* becomes true only by a close request delivered in glfwPollEvents or by  *)
(* processInput seeing Escape pressed; and the loop is left only with the  *)
(* flag true.                                                              *)
(***************************************************************************)
C16_SingleTransition ==
    /\ [][shouldClose => shouldClose']_vars
    /\ [][(~shouldClose /\ shouldClose') =>
            \/ (pc = "input" /\ escKey = "PRESS" /\ closeCause' = "key")
            \/ (pc = "poll" /\ closeCause' = "request")]_vars
    /\ [][(pc = "loopCheck" /\ pc' # "loopCheck" /\ pc' # "input") => shouldClose]_vars
    /\ []((SetupOK /\ Past("poll")) => shouldClose)
    /\ [](shouldClose <=> closeCause # "none")

C16_Witness ==
    /\ prog = "hello_window_clear"
    /\ pc = "terminate"
    /\ shouldClose
    /\ closeCause = "request"

(***************************************************************************)
(* C17: in every loop iteration of the three drawing programs the steps    *)
(* process input, clear to (0.2, 0.3, 0.3, 1.0), activate the program,     *)
(* draw with the geometry bound, present, poll events happen in this       *)
(* order, each exactly once, with nothing of another iteration between.    *)
(***************************************************************************)
CoreSteps == << "input", "clear", "use", "draw", "swap", "poll" >>
IsCore(s) == \E k \in 1..Len(CoreSteps) : CoreSteps[k] = s
Core(steps) == SelectSeq(steps, IsCore)

C17_IterationOrder ==
    (Drawing /\ SetupOK /\ InLoop) =>
        /\ Core(iterSteps) = SubSeq(CoreSteps, 1, Len(Core(iterSteps)))
        /\ Len(iterSteps) <= Len(CoreSteps) + 1
        /\ (pc = "loopCheck" /\ frames > 0) => Core(iterSteps) = CoreSteps
        /\ pc = "clear" => Core(iterSteps) = << "input" >>
        /\ pc = "useProgram" => Core(iterSteps) = << "input", "clear" >>
        /\ pc = "draw" => Core(iterSteps) = << "input", "clear", "use" >>
        /\ pc = "swap" => Core(iterSteps) = << "input", "clear", "use", "draw" >>
        /\ pc = "poll" => Core(iterSteps) = << "input", "clear", "use", "draw", "swap" >>
        /\ (LoopBody /\ Past("clear")) => clearColor = << 2, 3, 3, 10 >>
        /\ pc = "draw" => (boundVAO /\ vao.exists /\ useArg = "shaderProgram")

C17_Witness ==
    /\ prog = "shaders_uniform"
    /\ pc = "loopCheck"
    /\ frames = 2
    /\ iterSteps = << "input", "clear", "use", "uniform", "draw", "swap", "poll" >>

(***************************************************************************)
(* C18: the should-close flag is tested only by the loop condition.        *)
(* processInput seeing the exit key only sets the flag and the iteration   *)
(* goes on with the clear; no step of the body leaves the loop; every      *)
(* iteration that started is presented; and with the flag set the          *)
(* condition check leaves the loop instead of starting an iteration.       *)
(***************************************************************************)
C18_ExitOnlyAtBoundary ==
    /\ [][LoopBody => Rank(pc') <= Rank("poll")]_vars
    /\ [][(pc = "input" /\ escKey = "PRESS") => (pc' = "clear" /\ shouldClose')]_vars
    /\ [][(pc = "loopCheck" /\ shouldClose) =>
            (pc' = "loopCheck" \/ pc' = AfterLoop(prog))]_vars
    /\ [][(pc = "loopCheck" /\ ~shouldClose) =>
            (pc' = "loopCheck" \/ pc' = "input")]_vars
    /\ [](pc = "loopCheck" => presented = frames)

C18_Witness ==
    /\ prog = "hello_window_clear"
    /\ pc = "swap"
    /\ shouldClose
    /\ closeCause = "key"
    /\ frames = 2

(***************************************************************************)
(* C19: under FairSpec, once the should-close flag is set by a delivered   *)
(* close request, or if the Escape key stays pressed from some point on,   *)
(* the loop eventually exits, every resource is released and main returns  *)
(* 0.                                                                      *)
(***************************************************************************)
ShutdownDone ==
    /\ returned
    /\ status = 0
    /\ terminateCalls = 1
    /\ \A i \in 1..Len(Handles) : ~Handles[i].exists

C19_ShutdownLiveness ==
    /\ (closeCause = "request") ~> ShutdownDone
    /\ (<>[](escKey = "PRESS")) => <>ShutdownDone

C19_Witness ==
    /\ prog = "hello_triangle"
    /\ ShutdownDone
    /\ escKey = "PRESS"
    /\ closeCause = "key"

(***************************************************************************)
(* C20: in shaders_uniform every iteration reads the clock, computes the   *)
(* green value from it and writes the uniform exactly once, after the      *)
(* program was activated by glUseProgram and before the draw of the same   *)
(* iteration; hence each draw uses the value computed in its own           *)
(* iteration, never one left from an earlier iteration.                    *)
(***************************************************************************)
Position(steps, s) == CHOOSE k \in 1..Len(steps) : steps[k] = s

C20_UniformPerFrame ==
    (prog = "shaders_uniform" /\ SetupOK) =>
        /\ iterUniforms <= 1
        /\ (LoopBody /\ ~Past("uniform")) => (iterUniforms = 0 /\ clockAge # "fresh")
        /\ ((LoopBody /\ Past("uniform")) \/ (pc = "loopCheck" /\ frames > 0)) =>
              /\ iterUniforms = 1
              /\ Count(iterSteps, "uniform") = 1
              /\ Position(iterSteps, "use") < Position(iterSteps, "uniform")
              /\ clockAge = "fresh"
              /\ greenValue = SinTable[(clock % 8) + 1] \div 2 + 1000
              /\ currentProgram = "shaderProgram"
              /\ uniformAge = "fresh"
              /\ uniformGreen = greenValue
        /\ (LoopBody /\ Past("draw")) =>
              /\ Position(iterSteps, "uniform") < Position(iterSteps, "draw")
              /\ lastDraw.green = greenValue

(***************************************************************************)
(* C21: at every draw call of the three drawing programs the bound vertex  *)
(* array is the one configured at setup, its attribute 0 is enabled and    *)
(* sourced from the uploaded vertex buffer, and in hello_rectangle its     *)
(* element buffer is the uploaded index buffer. Setup has unbound          *)
(* GL_ARRAY_BUFFER and the vertex array in hello_triangle and              *)
(* hello_rectangle; the element buffer binding of the vertex array is      *)
(* never removed, and the vertex array is bound at each draw.              *)
(***************************************************************************)
C21_DrawBindings ==
    /\ [](pc = "draw" =>
            /\ boundVAO
            /\ vao.exists
            /\ vao.attribEnabled
            /\ vao.attribBuffer = "VBO"
            /\ vbo.exists
            /\ vbo.data = Vertices(prog)
            /\ vao.elementBuffer = (IF HasIndices(prog) THEN "EBO" ELSE "none")
            /\ HasIndices(prog) => (ebo.exists /\ ebo.data = quadIndices))
    /\ []((pc = "swap" /\ Drawing) =>
            Len(lastDraw.visited) = lastDraw.count)
    /\ []((InLoop /\ prog \in {"hello_triangle", "hello_rectangle"}) => ~boundArray)
    /\ []((pc = "loopCheck" /\ frames = 0 /\ Drawing) =>
            boundVAO = (prog = "shaders_uniform"))
    /\ [][vao.elementBuffer = "EBO" => vao'.elementBuffer = "EBO"]_vars

C21_Witness ==
    /\ prog = "hello_rectangle"
    /\ pc = "draw"
    /\ frames = 1
    /\ boundVAO
    /\ ~boundArray
    /\ vao.elementBuffer = "EBO"
    /\ vao.attribBuffer = "VBO"

(***************************************************************************)
(* C22: the program object, the vertex array and the buffers exist during  *)
(* the whole render loop: a delete call on any of them comes only after    *)
(* the loop was left (flag set, every started iteration presented), and    *)
(* once the loop was left no glUseProgram, bind, uniform write or draw     *)
(* call is made any more, so none refers to a deleted handle.              *)
(***************************************************************************)
LoopObjects == << program, vao, vbo, ebo >>

C22_LiveThroughLoop ==
    /\ []((Drawing /\ SetupOK /\ InLoop) =>
            /\ program.exists /\ ~program.flagged /\ program.deleteCalls = 0
            /\ vao.exists /\ vao.deleteCalls = 0
            /\ vbo.exists /\ vbo.deleteCalls = 0
            /\ HasIndices(prog) => (ebo.exists /\ ebo.deleteCalls = 0))
    /\ []((\E i \in 1..Len(LoopObjects) : LoopObjects[i].deleteCalls > 0) =>
            (shouldClose /\ presented = frames /\ Past("poll")))
    /\ [][Past("poll") =>
            /\ iterSteps' = iterSteps
            /\ lastDraw' = lastDraw
            /\ useArg' = useArg
            /\ uniformGreen' = uniformGreen
            /\ (boundVAO' => boundVAO)]_vars

C22_Witness ==
    /\ prog = "hello_rectangle"
    /\ pc = "deleteEBO"
    /\ frames = 2
    /\ ~vao.exists /\ vao.deleteCalls = 1
    /\ ~vbo.exists /\ vbo.deleteCalls = 1
    /\ ebo.exists
    /\ program.exists
    /\ lastDraw.frame = 2

(***************************************************************************)
(* C23: the resize callback runs only inside glfwPollEvents, the last step *)
(* of an iteration, on the thread of the loop: a size is reported and the  *)
(* viewport changes only in that step, never between the other steps, so   *)
(* within one iteration the clear, the draw and the present all see the    *)
(* same viewport.                                                          *)
(***************************************************************************)
C23_ResizeOnlyInPoll ==
    /\ [][(lastReported' # lastReported \/ (viewport' # viewport /\ Past("checkWindow")))
            => (pc = "poll" /\ pc' = "loopCheck")]_vars
    /\ [](\A k \in 1..Len(iterSteps) :
            iterSteps[k] = "poll" =>
                (k = Len(iterSteps) /\ ~LoopBody /\ Count(iterSteps, "swap") = 1))
    /\ []((LoopBody /\ Past("clear")) => viewport = frameViewport.clear)
    /\ [](frameViewport.draw # << >> => frameViewport.draw = frameViewport.clear)
    /\ [](frameViewport.present # << >> =>
            /\ frameViewport.present = frameViewport.clear
            /\ Drawing => frameViewport.present = frameViewport.draw)

C23_Witness ==
    /\ prog = "hello_triangle"
    /\ pc = "loopCheck"
    /\ frames = 2
    /\ frameViewport.clear = << 0, 0, 640, 480 >>
    /\ frameViewport.draw = << 0, 0, 640, 480 >>
    /\ frameViewport.present = << 0, 0, 640, 480 >>
    /\ viewport = << 0, 0, SCR_WIDTH, SCR_HEIGHT >>
    /\ lastReported = << SCR_WIDTH, SCR_HEIGHT >>

(***************************************************************************)
(* C24: after the upload at setup no step changes the vertex buffer        *)
(* contents, the index buffer contents, the attribute layout or the link   *)
(* state of the program; a step of the render loop changes no GL object    *)
(* and no buffer binding at all: what it may change is the clear color,    *)
(* the framebuffer, the current program, the vertex array binding, the     *)
(* uniform value and the viewport.                                         *)
(***************************************************************************)
Layout(v) == << v.attribEnabled, v.attribBuffer, v.attribSize, v.attribStride,
                v.attribOffset, v.elementBuffer >>

C24_GeometryImmutable ==
    /\ [][(Past("unbind") \/ frames > 0) =>
            /\ vbo'.data = vbo.data
            /\ ebo'.data = ebo.data
            /\ Layout(vao') = Layout(vao)
            /\ program'.linkStatus = program.linkStatus
            /\ program'.links = program.links]_vars
    /\ [][InLoop =>
            /\ vao' = vao /\ vbo' = vbo /\ ebo' = ebo
            /\ program' = program /\ shader' = shader
            /\ boundArray' = boundArray
            /\ contextCurrent' = contextCurrent]_vars
    /\ []((Drawing /\ SetupOK /\ Past("unbind")) =>
            /\ vbo.data = Vertices(prog)
            /\ ebo.data = (IF HasIndices(prog) THEN quadIndices ELSE << >>)
            /\ Layout(vao) = << TRUE, "VBO", AttribSize, AttribStride, 0,
                                IF HasIndices(prog) THEN "EBO" ELSE "none" >>
            /\ program.links = 1)

C24_Witness ==
    /\ prog = "hello_rectangle"
    /\ pc = "loopCheck"
    /\ frames = 3
    /\ vbo.data = quadVertices
    /\ ebo.data = quadIndices
    /\ program.linkStatus
    /\ viewport = << 0, 0, 640, 480 >>
    /\ clearColor = << 2, 3, 3, 10 >>

(***************************************************************************)
(* C25: when setup succeeds the first iteration runs to its end. At the    *)
(* first loop-condition check the flag is false and the loop is entered;   *)
(* the cached key state changes only in glfwPollEvents, so Escape is not   *)
(* seen before a frame was presented; the loop is left only after at       *)
(* least one frame was cleared and presented, and an exit caused by the    *)
(* key comes no earlier than the processInput of the second iteration.     *)
(***************************************************************************)
C25_FirstFrameCompletes ==
    /\ []((pc = "loopCheck" /\ frames = 0) => (~shouldClose /\ escKey = "RELEASE"))
    /\ [][(pc = "loopCheck" /\ frames = 0) => (pc' = "loopCheck" \/ pc' = "input")]_vars
    /\ [][escKey' # escKey => pc = "poll"]_vars
    /\ [](escKey = "PRESS" => presented >= 1)
    /\ [](shouldClose => presented >= 1)
    /\ []((SetupOK /\ Past("poll")) =>
            (frames >= 1 /\ presented = frames /\ clearColor = << 2, 3, 3, 10 >>))
    /\ []((returned /\ status = 0) => presented >= 1)
    /\ [](closeCause = "key" => frames >= 2)

C25_Witness ==
    /\ prog = "hello_window_clear"
    /\ pc = "done"
    /\ returned
    /\ closeCause = "key"
    /\ frames = 2
    /\ presented = 2

(***************************************************************************)
(* C26: on every path on which main returns after glfwInit was called,     *)
(* glfwTerminate has been called exactly once, and no windowing or         *)
(* graphics call is made after it.                                         *)
(***************************************************************************)
C26_TerminateOnEveryReturn ==
    /\ returned => terminateCalls = 1
    /\ terminateCalls <= 1
    /\ terminateCalls = 1 => (returned /\ pc = "done")

(***************************************************************************)
(* C27: main runs context / window setup, then the pipeline build, then    *)
(* the render loop, each once and never going back to an earlier phase     *)
(* (hello_window_clear has no statement in the build phase). Every         *)
(* statement of the build and of the loop runs with the context current    *)
(* and the GL functions loaded. If the loader fails, main returns a        *)
(* non-zero status and no shader, buffer, clear, viewport or draw call was *)
(* ever issued; the resize callback, registered before the loader runs,    *)
(* has not been called, events being dispatched only by glfwPollEvents in  *)
(* the loop.                                                               *)
(***************************************************************************)
\* 1: context / window setup, 2: pipeline build, 3: render loop, 4: shutdown.
Phase(p) ==
    IF Rank(p) <= Rank("loadGL") THEN 1
    ELSE IF Rank(p) <= Rank("unbind") THEN 2
    ELSE IF Rank(p) <= Rank("poll") THEN 3
    ELSE 4

C27_PhasesAndLoader ==
    /\ [][Phase(pc') >= Phase(pc)]_vars
    /\ [][(Phase(pc) # 3 /\ pc' # pc) => Rank(pc') > Rank(pc)]_vars
    /\ [][(Phase(pc) = 1 /\ Phase(pc') \in {2, 3}) => (pc = "loadGL" /\ gladLoaded')]_vars
    /\ [][(Phase(pc) = 2 /\ pc' # pc) => Phase(pc') \in {2, 3}]_vars
    /\ [](Phase(pc) \in {2, 3} =>
            (window = "valid" /\ contextCurrent /\ resizeCallback /\ gladLoaded))
    /\ []((Drawing /\ Phase(pc) >= 3 /\ SetupOK) =>
            /\ \A s \in Stages : shader[s].compiles = 1
            /\ program.attachCalls = 2
            /\ program.links = 1
            /\ vbo.data = Vertices(prog))
    /\ [](~gladLoaded =>
            /\ \A s \in Stages : shader[s] = NoShader
            /\ program = NoProgram
            /\ vao = NoVAO /\ vbo = NoBuffer /\ ebo = NoBuffer
            /\ lastDraw = NoDraw
            /\ frames = 0 /\ iterSteps = << >>
            /\ clearColor = << 0, 0, 0, 0 >>
            /\ lastReported = << >>
            /\ viewport \in {<< 0, 0, 0, 0 >>, << 0, 0, SCR_WIDTH, SCR_HEIGHT >>})
    /\ []((returned /\ ~gladLoaded) => status # 0)

C27_Witness ==
    /\ prog = "hello_triangle"
    /\ returned
    /\ status = -1
    /\ window = "valid"
    /\ contextCurrent
    /\ resizeCallback
    /\ ~gladLoaded
    /\ program = NoProgram
    /\ lastReported = << >>
====
